---- MODULE Spec2Model ----
(***************************************************************************)
(* Model of the ObfuscateZero basic-block pass                              *)
(* (llvm-passes/ObfuscateZero/ObfuscateZero.cpp).                           *)
(*                                                                         *)
(* A basic block is a sequence of instruction records.  An instruction is  *)
(* [id, op, ty, ops]: its identity (the node address), its kind, its result *)
(* type and its operand list.  An operand is [k, ty, v]: a constant of     *)
(* value v, a reference to the instruction with id v, or another           *)
(* non-constant value (function argument, block label).                    *)
(* The block iterator is a node iterator: it is modelled by the id of the  *)
(* instruction it points to, End when it is BB.end().                      *)
(***************************************************************************)
EXTENDS Integers, Sequences, FiniteSets, TLC

VARIABLES block, IntegerVect, Generator, modified, pc, I, i, nextId,
          runs, entry, visited, env, draw, result

vars == <<block, IntegerVect, Generator, modified, pc, I, i, nextId,
          runs, entry, visited, env, draw, result>>

\* ---------------------------------------------------------------- bounds
\* longest input block
MaxInsts == 3
\* number of generator states the pass may be entered with
NumSeeds == 2
\* number of consecutive runOnBasicBlock invocations on the block
MaxRuns == 2
\* largest low part of a sampled runtime value (covers the 0x7 mask)
MaxLow == 7

\* ------------------------------------------------------- program constants
p1 == 431
\* variant: the two primes are not distinct
p2SameAsp1 == p1
p2 == 277
OverflowMask == 7
RandAnyLo == 1
RandAnyHi == 10
AnyBase == 1
IntermediaryBits == 32

\* ------------------------------------------------------------------ types
IntTypes == {"i1", "i8", "i32", "i64"}
IntermediaryType == "i32"

\* Type::getScalarSizeInBits
Bits(t) == CASE t = "i1" -> 1
             [] t = "i8" -> 8
             [] t = "i32" -> IntermediaryBits
             [] t = "i64" -> 64
             [] t = "vec" -> 32
             [] OTHER -> 0

isIntegerTy(t) == t \in IntTypes
isPointerTy(t) == t = "ptr"
isFloatingPointTy(t) == t = "float"

\* ----------------------------------------------------------------- values
End == 0
NullValue == [k |-> "null", ty |-> "void", v |-> 0]
Const(t, n) == [k |-> "const", ty |-> t, v |-> n]
Arg(t, n) == [k |-> "arg", ty |-> t, v |-> n]
ValueOf(id, t) == [k |-> "inst", ty |-> t, v |-> id]
Inst(id, op, t, ops) == [id |-> id, op |-> op, ty |-> t, ops |-> ops]

Pos(blk, id) == CHOOSE k \in 1..Len(blk) : blk[k].id = id
InBlock(blk, id) == \E k \in 1..Len(blk) : blk[k].id = id
Ids(blk) == {blk[k].id : k \in 1..Len(blk)}

\* BasicBlock::getFirstInsertionPt: the first instruction that is not a phi
\* variant: BB.begin(), which does not skip the phi instructions
getFirstInsertionPtAtBegin(blk) == IF Len(blk) = 0 THEN End ELSE blk[1].id
getFirstInsertionPt(blk) ==
  IF \E k \in 1..Len(blk) : blk[k].op # "phi"
  THEN blk[CHOOSE k \in 1..Len(blk) :
             /\ blk[k].op # "phi"
             /\ \A j \in 1..(k - 1) : blk[j].op = "phi"].id
  ELSE End

\* ++I on the instruction list
NextIter(blk, id) ==
  IF Pos(blk, id) = Len(blk) THEN End ELSE blk[Pos(blk, id) + 1].id

\* ------------------------------------------------------ eligibility filter
\* variant: the CallInst test is missing
isValidCandidateInstructionNoCall(inst) ==
  inst.op \notin {"gep", "switch"}
isValidCandidateInstruction(inst) ==
  IF inst.op = "gep" THEN FALSE
  ELSE IF inst.op = "switch" THEN FALSE
  ELSE IF inst.op = "call" THEN FALSE
  ELSE TRUE

\* variant: the floating-point test is missing
isValidCandidateOperandNoFloat(V) ==
  IF V.k = "const"
  THEN IF isPointerTy(V.ty) THEN FALSE
       ELSE IF V.v = 0 THEN TRUE
       ELSE FALSE
  ELSE FALSE
\* TRUE when the code returns the constant, FALSE when it returns nullptr
isValidCandidateOperand(V) ==
  IF V.k = "const"
  THEN IF isPointerTy(V.ty) THEN FALSE
       ELSE IF isFloatingPointTy(V.ty) THEN FALSE
       ELSE IF V.v = 0 THEN TRUE
       ELSE FALSE
  ELSE FALSE

\* ------------------------------------------------------------- value pool
\* variant: the type test is missing
registerAnyType(pool, V) == Append(pool, V)
registerInteger(pool, V) ==
  IF isIntegerTy(V.ty) THEN Append(pool, V) ELSE pool

PoolIsEmpty(pool) == Len(pool) < 1

\* variant: the pool is not cleared
PoolKept(pool) == pool
\* IntegerVect.clear() at the head of runOnBasicBlock
ClearedPool(pool) == <<>>

\* variant: modified keeps the value of the previous invocation
ModifiedKept(m) == m
\* bool modified = false
ModifiedAtEntry(m) == FALSE

\* ------------------------------------------------------- random generator
\* std::default_random_engine: the minstd_rand0 recurrence
\* x' = 16807 * x mod (2^31 - 1), computed without overflow
EngineNext(g) ==
  LET t == 16807 * (g % 127773) - 2836 * (g \div 127773)
  IN  IF t > 0 THEN t ELSE t + 2147483647

\* std::uniform_int_distribution<size_t>(lo, hi)(Generator)
Uniform(g, lo, hi) == lo + ((g - 1) % (hi - lo + 1))

\* the four draws of replaceZero, in declaration order
Draws(g, size) ==
  LET g1 == EngineNext(g)
      g2 == EngineNext(g1)
      g3 == EngineNext(g2)
      g4 == EngineNext(g3)
  IN  [Index1 |-> Uniform(g1, 0, size - 1),
       Index2 |-> Uniform(g2, 0, size - 1),
       any1 |-> AnyBase + Uniform(g3, RandAnyLo, RandAnyHi),
       any2 |-> AnyBase + Uniform(g4, RandAnyLo, RandAnyHi),
       g |-> g4]

\* ---------------------------------------------------------------- builder
\* The builder state: the instructions created so far (in insertion order),
\* the next fresh instruction identity, the pool, and the value returned by
\* the last Create call.
Insert(b, op, t, ops) ==
  [insts |-> Append(b.insts, Inst(b.nid, op, t, ops)),
   nid |-> b.nid + 1,
   pool |-> b.pool,
   last |-> ValueOf(b.nid, t)]

\* IRBuilder::CreateCast: a cast to the value's own type is the value itself
CreateCast(b, op, V, DestTy) ==
  IF V.ty = DestTy THEN [b EXCEPT !.last = V] ELSE Insert(b, op, DestTy, <<V>>)

CreateZExt(b, V, DestTy) == CreateCast(b, "zext", V, DestTy)
CreateTrunc(b, V, DestTy) == CreateCast(b, "trunc", V, DestTy)

CreateZExtOrTrunc(b, V, DestTy) ==
  IF Bits(V.ty) < Bits(DestTy) THEN CreateZExt(b, V, DestTy)
  ELSE IF Bits(V.ty) > Bits(DestTy) THEN CreateTrunc(b, V, DestTy)
  ELSE [b EXCEPT !.last = V]

CreateAnd(b, L, R) == Insert(b, "and", L.ty, <<L, R>>)
CreateOr(b, L, R) == Insert(b, "or", L.ty, <<L, R>>)
CreateMul(b, L, R) == Insert(b, "mul", L.ty, <<L, R>>)
CreateICmpEQ(b, L, R) == Insert(b, "icmp", "i1", <<L, R>>)

\* registerInteger(*V) on the value the last Create call returned
Reg(b) == [b EXCEPT !.pool = registerInteger(b.pool, b.last)]

\* lines 138-140 and 151-153: the cast of the drawn pool value, registered
RegCast(b, Index) ==
  Reg(CreateZExtOrTrunc(b, b.pool[Index + 1], IntermediaryType))
\* lines 141-142 and 154-155
RegAnd(b, Mask) == Reg(CreateAnd(b, b.last, Mask))
\* lines 143-144 and 156-157
RegOr(b, any) == Reg(CreateOr(b, b.last, any))
\* lines 145-146 and 158-159
RegSquare(b) == Reg(CreateMul(b, b.last, b.last))
\* lines 147-148 and 160-161
RegTot(b, prime) == Reg(CreateMul(b, b.last, prime))

\* sequencing of two statements: Rest is given the builder state Stage left
Then(Stage, Rest(_)) == CHOOSE e \in {Rest(b) : b \in {Stage}} : TRUE

\* one side of the comparison: prime * (((x & 7) | any) ^ 2)
Tot(b0, Index, any, prime) ==
  Then(RegCast(b0, Index), LAMBDA Cast :
  Then(RegAnd(Cast, Const(IntermediaryType, OverflowMask)), LAMBDA And :
  Then(RegOr(And, Const(IntermediaryType, any)), LAMBDA Or :
  Then(RegSquare(Or), LAMBDA Square :
  RegTot(Square, Const(IntermediaryType, prime))))))

\* lines 164-168: the comparison of the two sides and its cast
Comp(LhsTot, RhsTot) == Reg(CreateICmpEQ(RhsTot, LhsTot.last, RhsTot.last))
CastComp(comp, ReplacedType) == Reg(CreateZExt(comp, comp.last, ReplacedType))

Returned(castComp) ==
  [ret |-> castComp.last, insts |-> castComp.insts,
   pool |-> castComp.pool, nid |-> castComp.nid]

\* replaceZero: the created instructions, the grown pool and the returned
\* value (NullValue for nullptr); d holds the four random draws
replaceZero(pool, VReplace, d, nid) ==
  IF PoolIsEmpty(pool)
  THEN [ret |-> NullValue, insts |-> <<>>, pool |-> pool, nid |-> nid]
  ELSE
    Then([insts |-> <<>>, nid |-> nid, pool |-> pool, last |-> NullValue], LAMBDA b0 :
    Then(Tot(b0, d.Index1, d.any1, p1), LAMBDA LhsTot :
    Then(Tot(LhsTot, d.Index2, d.any2, p2), LAMBDA RhsTot :
    Then(Comp(LhsTot, RhsTot), LAMBDA comp :
    Then(CastComp(comp, VReplace.ty), LAMBDA castComp :
    Returned(castComp))))))

\* variant: new instructions go immediately after Inst
InsertAfter(blk, id, new) ==
  SubSeq(blk, 1, Pos(blk, id)) \o new \o SubSeq(blk, Pos(blk, id) + 1, Len(blk))
\* IRBuilder<> Builder(&Inst): new instructions go immediately before Inst
InsertBefore(blk, id, new) ==
  SubSeq(blk, 1, Pos(blk, id) - 1) \o new \o SubSeq(blk, Pos(blk, id), Len(blk))

\* Inst.setOperand(k, V), k counted from 0
setOperand(blk, id, k, V) ==
  [blk EXCEPT ![Pos(blk, id)].ops[k + 1] = V]

\* ------------------------------------------------------------ input blocks
\* The instruction shapes input blocks are built from:
\*   %p = phi i32 [0, ..], [%x, ..]        %r = add i32 %x, 0
\*   %s = select i1 false, i8 0, i8 5      store float 0.0, ptr null
\*   %g = getelementptr .., ptr %q, i32 0  switch i32 %x, .. [i32 0, ..]
\*   %c = call i64 @f(i32 0)               %v = add <4 x i32> %w, zeroinitializer
Templates ==
  << [op |-> "phi", ty |-> "i32", ops |-> <<Const("i32", 0), Arg("i32", 1)>>],
     [op |-> "other", ty |-> "i32", ops |-> <<Arg("i32", 1), Const("i32", 0)>>],
     [op |-> "other", ty |-> "i8",
      ops |-> <<Const("i1", 0), Const("i8", 0), Const("i8", 5)>>],
     [op |-> "other", ty |-> "void", ops |-> <<Const("float", 0), Const("ptr", 0)>>],
     [op |-> "gep", ty |-> "ptr", ops |-> <<Arg("ptr", 2), Const("i32", 0)>>],
     [op |-> "switch", ty |-> "void", ops |-> <<Arg("i32", 1), Const("i32", 0)>>],
     [op |-> "call", ty |-> "i64", ops |-> <<Const("i32", 0)>>],
     [op |-> "other", ty |-> "vec", ops |-> <<Arg("vec", 3), Const("vec", 0)>>] >>

\* phi instructions lead the block; a switch is a terminator, so it ends it
WellFormedShape(ts) ==
  /\ \A k \in 1..Len(ts) :
       Templates[ts[k]].op = "phi" => \A j \in 1..(k - 1) : Templates[ts[j]].op = "phi"
  /\ \A k \in 1..Len(ts) : Templates[ts[k]].op = "switch" => k = Len(ts)

BlockOf(ts) ==
  [k \in 1..Len(ts) |->
     Inst(k, Templates[ts[k]].op, Templates[ts[k]].ty, Templates[ts[k]].ops)]

InputBlocks ==
  {BlockOf(ts) : ts \in {t \in UNION {[1..n -> 1..Len(Templates)] : n \in 0..MaxInsts} :
                           WellFormedShape(t)}}

Seeds == 1..NumSeeds

NoDraw == [Index1 |-> 0, Index2 |-> 0, any1 |-> 0, any2 |-> 0, g |-> 0]

\* -------------------------------------------------------------------- Init
Init ==
  /\ block \in InputBlocks
  /\ Generator \in Seeds
  /\ IntegerVect = <<>>
  /\ modified = FALSE
  /\ pc = "idle"
  /\ I = End
  /\ i = 0
  /\ nextId = Len(block) + 1
  /\ runs = 0
  /\ entry = block
  /\ visited = <<>>
  /\ env = <<>>
  /\ draw = NoDraw
  /\ result = <<>>

\* ----------------------------------------------------------------- actions
CurInst == block[Pos(block, I)]
CurOperand == CurInst.ops[i + 1]

\* runOnBasicBlock is called: lines 34-39
Enter ==
  /\ pc \in {"idle", "done"}
  /\ runs < MaxRuns
  /\ IntegerVect' = ClearedPool(IntegerVect)
  /\ modified' = ModifiedAtEntry(modified)
  /\ I' = getFirstInsertionPt(block)
  /\ i' = 0
  /\ pc' = "loop"
  /\ runs' = runs + 1
  /\ entry' = block
  /\ visited' = <<>>
  /\ UNCHANGED <<block, Generator, nextId, env, draw, result>>

\* an instruction the filter rejects: no operand is looked at (lines 43, 55)
SkipInstruction ==
  /\ pc = "loop"
  /\ I # End
  /\ ~isValidCandidateInstruction(CurInst)
  /\ IntegerVect' = registerInteger(IntegerVect, ValueOf(CurInst.id, CurInst.ty))
  /\ I' = NextIter(block, I)
  /\ i' = 0
  /\ visited' = Append(visited, I)
  /\ UNCHANGED <<block, Generator, modified, pc, nextId, runs, entry, env, draw, result>>

\* operand i is not a candidate: line 45 fails
OperandNotCandidate ==
  /\ pc = "loop"
  /\ I # End
  /\ isValidCandidateInstruction(CurInst)
  /\ i < Len(CurInst.ops)
  /\ ~isValidCandidateOperand(CurOperand)
  /\ i' = i + 1
  /\ UNCHANGED <<block, IntegerVect, Generator, modified, pc, I, nextId,
                 runs, entry, visited, env, draw, result>>

\* operand i is a candidate and replaceZero returns nullptr: lines 46, 49
OperandPoolEmpty ==
  /\ pc = "loop"
  /\ I # End
  /\ isValidCandidateInstruction(CurInst)
  /\ i < Len(CurInst.ops)
  /\ isValidCandidateOperand(CurOperand)
  /\ PoolIsEmpty(IntegerVect)
  /\ replaceZero(IntegerVect, CurOperand, NoDraw, nextId).ret = NullValue
  /\ i' = i + 1
  /\ UNCHANGED <<block, IntegerVect, Generator, modified, pc, I, nextId,
                 runs, entry, visited, env, draw, result>>

\* Inst.setOperand(i, New_val) with what replaceZero built and registered
Replace(r) ==
  /\ block' = setOperand(InsertBefore(block, I, r.insts), I, i, r.ret)
  /\ IntegerVect' = r.pool
  /\ nextId' = r.nid

ReplaceDrawn(d) ==
  /\ \E r \in {replaceZero(IntegerVect, CurOperand, d, nextId)} : Replace(r)
  /\ Generator' = d.g

\* operand i is a candidate and replaceZero returns a value: lines 46-48
OperandReplaced ==
  /\ pc = "loop"
  /\ I # End
  /\ isValidCandidateInstruction(CurInst)
  /\ i < Len(CurInst.ops)
  /\ isValidCandidateOperand(CurOperand)
  /\ ~PoolIsEmpty(IntegerVect)
  /\ \E d \in {Draws(Generator, Len(IntegerVect))} : ReplaceDrawn(d)
  /\ modified' = TRUE
  /\ i' = i + 1
  /\ UNCHANGED <<pc, I, runs, entry, visited, env, draw, result>>

\* all operands done: registerInteger(Inst) and ++I (lines 44, 55, 41)
EndOfOperands ==
  /\ pc = "loop"
  /\ I # End
  /\ isValidCandidateInstruction(CurInst)
  /\ i >= Len(CurInst.ops)
  /\ IntegerVect' = registerInteger(IntegerVect, ValueOf(CurInst.id, CurInst.ty))
  /\ I' = NextIter(block, I)
  /\ i' = 0
  /\ visited' = Append(visited, I)
  /\ UNCHANGED <<block, Generator, modified, pc, nextId, runs, entry, env, draw, result>>

\* I == end: return modified (line 61)
Return ==
  /\ pc = "loop"
  /\ I = End
  /\ pc' = "done"
  /\ UNCHANGED <<block, IntegerVect, Generator, modified, I, i, nextId,
                 runs, entry, visited, env, draw, result>>

Next ==
  \/ Enter
  \/ SkipInstruction
  \/ OperandNotCandidate
  \/ OperandPoolEmpty
  \/ OperandReplaced
  \/ EndOfOperands
  \/ Return

Spec == Init /\ [][Next]_vars

\* the traversal is a plain loop: a step that can be taken is taken
FairSpec == Init /\ [][Next]_vars /\ WF_vars(Next)

\* ------------------------------------------------ run-time value semantics
\* A run-time integer is its little-endian byte sequence, so that every
\* width keeps its wrap-around; an i1 is one byte holding 0 or 1.
NBytes(t) == CASE t = "i1" -> 1
               [] t = "i8" -> 1
               [] t = "i32" -> IntermediaryBits \div 8
               [] t = "i64" -> 8
               [] OTHER -> 0

RECURSIVE ToBytes(_, _)
ToBytes(n, len) ==
  IF len = 0 THEN <<>> ELSE <<n % 256>> \o ToBytes(n \div 256, len - 1)

RECURSIVE BitAnd(_, _)
BitAnd(a, b) ==
  IF a = 0 \/ b = 0 THEN 0
  ELSE ((a % 2) * (b % 2)) + 2 * BitAnd(a \div 2, b \div 2)

RECURSIVE BitOr(_, _)
BitOr(a, b) ==
  IF a = 0 THEN b
  ELSE IF b = 0 THEN a
  ELSE (IF a % 2 = 1 \/ b % 2 = 1 THEN 1 ELSE 0) + 2 * BitOr(a \div 2, b \div 2)

AndBytes(a, b) == [k \in 1..Len(a) |-> BitAnd(a[k], b[k])]
OrBytes(a, b) == [k \in 1..Len(a) |-> BitOr(a[k], b[k])]

\* column k of the schoolbook product
RECURSIVE Col(_, _, _, _)
Col(a, b, k, j) ==
  IF j > k THEN 0 ELSE a[j] * b[k - j + 1] + Col(a, b, k, j + 1)

\* the product modulo 2^(8 * Len(a)): carries past the top byte are dropped
RECURSIVE MulFrom(_, _, _, _)
MulFrom(a, b, k, carry) ==
  IF k > Len(a) THEN <<>>
  ELSE LET s == Col(a, b, k, 1) + carry
       IN  <<s % 256>> \o MulFrom(a, b, k + 1, s \div 256)

MulBytes(a, b) == MulFrom(a, b, 1, 0)

ZExtBytes(a, t) == a \o [k \in 1..(NBytes(t) - Len(a)) |-> 0]
TruncBytes(a, t) == IF t = "i1" THEN <<a[1] % 2>> ELSE SubSeq(a, 1, NBytes(t))

OperandValue(V, vals) ==
  IF V.k = "const" THEN ToBytes(V.v, NBytes(V.ty)) ELSE vals[V.v]

EvalInst(inst, vals) ==
  LET a == OperandValue(inst.ops[1], vals)
      b == OperandValue(inst.ops[2], vals)
  IN  CASE inst.op = "zext" -> ZExtBytes(a, inst.ty)
        [] inst.op = "trunc" -> TruncBytes(a, inst.ty)
        [] inst.op = "and" -> AndBytes(a, b)
        [] inst.op = "or" -> OrBytes(a, b)
        [] inst.op = "mul" -> MulBytes(a, b)
        [] inst.op = "icmp" -> IF a = b THEN <<1>> ELSE <<0>>

RECURSIVE EvalInsts(_, _)
EvalInsts(insts, vals) ==
  IF insts = <<>> THEN vals
  ELSE EvalInsts(Tail(insts), vals @@ (Head(insts).id :> EvalInst(Head(insts), vals)))

\* ------------------------------------------- the replacement, evaluated
\* The pass stands before operand 1 of `%r = add T %x, 0`; the pool holds
\* the two integer instructions before it, with every sampled run-time
\* value, and the four draws range over everything the distributions give.
AnyRange == (AnyBase + RandAnyLo)..(AnyBase + RandAnyHi)

\* an i8 is sampled with its high bits clear; the wider types with their
\* high bits all set, so that the cast and the mask have bits to remove
Fills(t) == IF t = "i8" THEN {0} ELSE {1}

Samples(t) ==
  IF t = "i1" THEN {<<0>>, <<1>>}
  ELSE {<<(low + 248 * fill) % 256>> \o [k \in 1..(NBytes(t) - 1) |-> 255 * fill] :
          low \in 0..MaxLow, fill \in Fills(t)}

ReplacedTypes == {"i1", "i64"}

MBABlock(tx, ty, tr) ==
  << Inst(1, "other", tx, <<Arg(tx, 1)>>),
     Inst(2, "other", ty, <<Arg(ty, 2)>>),
     Inst(3, "other", tr, <<Arg(tr, 3), Const(tr, 0)>>) >>

InitMBA ==
  /\ \E tx \in IntTypes, ty \in IntTypes, tr \in ReplacedTypes :
       /\ block = MBABlock(tx, ty, tr)
       /\ IntegerVect = <<ValueOf(1, tx), ValueOf(2, ty)>>
       /\ \E x \in Samples(tx), y \in Samples(ty) : env = (1 :> x) @@ (2 :> y)
  /\ draw \in [Index1 : 0..1, Index2 : 0..1, any1 : AnyRange, any2 : AnyRange, g : {0}]
  /\ Generator = 1
  /\ modified = FALSE
  /\ pc = "loop"
  /\ I = 3
  /\ i = 1
  /\ nextId = 4
  /\ runs = 1
  /\ entry = block
  /\ visited = <<1, 2>>
  /\ result = <<>>

\* the values the created instructions compute from the pool's values
Executed(r, vals, cmp) ==
  [lhs |-> OperandValue(cmp.ops[1], vals),
   rhs |-> OperandValue(cmp.ops[2], vals),
   out |-> OperandValue(r.ret, vals)]

ReplaceAndExecute(r) ==
  /\ Replace(r)
  /\ \E vals \in {EvalInsts(r.insts, env)} :
       result' = Executed(r, vals,
                          r.insts[CHOOSE k \in 1..Len(r.insts) : r.insts[k].op = "icmp"])

\* lines 46-48 with the given draws, then the created code is executed
Evaluate ==
  /\ pc = "loop"
  /\ result = <<>>
  /\ isValidCandidateOperand(CurOperand)
  /\ \E r \in {replaceZero(IntegerVect, CurOperand, draw, nextId)} : ReplaceAndExecute(r)
  /\ modified' = TRUE
  /\ i' = i + 1
  /\ pc' = "evaluated"
  /\ UNCHANGED <<Generator, I, runs, entry, visited, env, draw>>

NextMBA == Evaluate

SpecMBA == InitMBA /\ [][NextMBA]_vars

\* ================================================================ claims
Excluded == {"gep", "switch", "call"}

\* the instruction of the entry block at position k, as it is now
Now(k) == block[Pos(block, entry[k].id)]

\* an integer value was registered before position k of the entry block
IntegerBefore(k) ==
  \E j \in 1..(k - 1) : entry[j].op # "phi" /\ isIntegerTy(entry[j].ty)

Overwritten(k, o) == Now(k).ops[o] # entry[k].ops[o]

SomethingOverwritten ==
  \E k \in 1..Len(entry) : \E o \in 1..Len(entry[k].ops) : Overwritten(k, o)

\* C1: the value built by replaceZero is zero: whatever pool values and
\* constants are drawn, the two 32-bit products differ, so the comparison is
\* false and its cast to the replaced type is the zero of that type.
C1_ReplacementIsZero ==
  pc = "evaluated" =>
    /\ result.lhs # result.rhs
    /\ result.out = ToBytes(0, NBytes(entry[3].ops[2].ty))

\* the same pool value on both sides with the same constant
C1_Witness ==
  /\ pc = "evaluated"
  /\ draw.Index1 = draw.Index2
  /\ draw.any1 = draw.any2
  /\ Len(block) > Len(entry)
  /\ result.out = ToBytes(0, NBytes(entry[3].ops[2].ty))

\* C2: the operands of every getelementptr, switch and call instruction are
\* the same during and after runOnBasicBlock as at its entry.
C2_ExcludedOperandsKept ==
  \A k \in 1..Len(entry) :
    entry[k].op \in Excluded =>
      /\ InBlock(block, entry[k].id)
      /\ Now(k) = entry[k]

\* an excluded instruction with an integer zero operand, reached with a
\* non-empty pool, in a run that replaced another operand
C2_Witness ==
  /\ pc = "done"
  /\ modified
  /\ \E k \in 1..Len(entry) :
       /\ entry[k].op \in Excluded
       /\ IntegerBefore(k)
       /\ \E o \in 1..Len(entry[k].ops) : isValidCandidateOperand(entry[k].ops[o])

\* C3: an operand is overwritten only if it is a constant, of a type that is
\* neither pointer nor floating point, and all-zero.
C3_OnlyZeroConstantsOverwritten ==
  \A k \in 1..Len(entry) : \A o \in 1..Len(entry[k].ops) :
    Overwritten(k, o) =>
      /\ entry[k].ops[o].k = "const"
      /\ ~isPointerTy(entry[k].ops[o].ty)
      /\ ~isFloatingPointTy(entry[k].ops[o].ty)
      /\ entry[k].ops[o].v = 0

\* a null pointer and a floating-point zero, in an eligible instruction that
\* is reached with a non-empty pool, are still there after a run that
\* overwrote another operand
C3_Witness ==
  /\ pc = "done"
  /\ modified
  /\ \E k \in 1..Len(entry) :
       /\ isValidCandidateInstruction(entry[k])
       /\ IntegerBefore(k)
       /\ \E o \in 1..Len(entry[k].ops) :
            /\ entry[k].ops[o] = Const("ptr", 0)
            /\ ~Overwritten(k, o)
       /\ \E o \in 1..Len(entry[k].ops) :
            /\ entry[k].ops[o] = Const("float", 0)
            /\ ~Overwritten(k, o)

\* C4: while instruction X is processed, every value of IntegerVect is an
\* instruction of the block placed strictly before X: a non-phi instruction
\* of the entry block already visited, or one created in this invocation.
C4_PoolDefinedBeforeX ==
  (pc = "loop" /\ I # End) =>
    \A k \in 1..Len(IntegerVect) :
      /\ IntegerVect[k].k = "inst"
      /\ InBlock(block, IntegerVect[k].v)
      /\ Pos(block, IntegerVect[k].v) < Pos(block, I)
      /\ block[Pos(block, IntegerVect[k].v)].op # "phi"
      /\ IntegerVect[k].v \in Ids(entry) =>
           \E j \in 1..Len(visited) : visited[j] = IntegerVect[k].v

\* replaceZero is about to be called for a second zero operand of X, after
\* a first operand of X was replaced
C4_Witness ==
  /\ pc = "loop"
  /\ I # End
  /\ i >= 1
  /\ i < Len(CurInst.ops)
  /\ isValidCandidateInstruction(CurInst)
  /\ isValidCandidateOperand(CurOperand)
  /\ \E o \in 1..i : CurInst.ops[o].k = "inst" /\ CurInst.ops[o].v \notin Ids(entry)
  /\ Len(IntegerVect) > 1

\* the step at a candidate operand when the pool is empty
EmptyPoolAttempt ==
  /\ pc = "loop"
  /\ I # End
  /\ isValidCandidateInstruction(CurInst)
  /\ i < Len(CurInst.ops)
  /\ isValidCandidateOperand(CurOperand)
  /\ IntegerVect = <<>>

\* C5: a replacement attempted on an empty pool creates nothing, leaves the
\* operand and goes on to the next operand; an instruction with no
\* integer-typed instruction result before it in the block is left as it is.
C5_EmptyPoolSkips ==
  /\ [](\A k \in 1..Len(entry) :
          (\A j \in 1..(k - 1) : ~isIntegerTy(entry[j].ty)) =>
            /\ Len(block) >= k
            /\ block[k] = entry[k])
  /\ [][EmptyPoolAttempt =>
          /\ block' = block
          /\ IntegerVect' = <<>>
          /\ nextId' = nextId
          /\ modified' = modified
          /\ pc' = "loop"
          /\ I' = I
          /\ i' = i + 1]_vars

\* the first instruction kept its zero operand and the traversal went on to
\* replace a later one
C5_Witness ==
  /\ pc = "done"
  /\ modified
  /\ Len(entry) >= 1
  /\ isValidCandidateInstruction(entry[1])
  /\ \E o \in 1..Len(entry[1].ops) :
       /\ isValidCandidateOperand(entry[1].ops[o])
       /\ block[1].ops[o] = entry[1].ops[o]

\* the integer-typed values produced or seen so far in this invocation
IntegerProcessed == {id \in {visited[j] : j \in 1..Len(visited)} :
                       isIntegerTy(block[Pos(block, id)].ty)}
IntegerCreated == {id \in Ids(block) \ Ids(entry) :
                     isIntegerTy(block[Pos(block, id)].ty)}

\* C6: the size of IntegerVect is the number of integer-typed values
\* produced or seen so far, each counted once.
C6_PoolSizeIsCount ==
  pc \in {"loop", "done"} =>
    Len(IntegerVect) = Cardinality(IntegerProcessed) + Cardinality(IntegerCreated)

\* what does hold of the pool: it holds exactly those values, some of them
\* more than once, and it never shrinks within an invocation
PoolHoldsCount ==
  pc \in {"loop", "done"} =>
    /\ {IntegerVect[k].v : k \in 1..Len(IntegerVect)} = IntegerProcessed \cup IntegerCreated
    /\ Len(IntegerVect) >= Cardinality(IntegerProcessed) + Cardinality(IntegerCreated)
PoolNeverShrinks ==
  [][pc = "loop" => Len(IntegerVect') >= Len(IntegerVect)]_vars

\* C7: runOnBasicBlock returns true exactly when it overwrote an operand of
\* the block during this invocation.
C7_ReturnsModifiedIffOverwritten ==
  pc = "done" => (modified <=> SomethingOverwritten)

\* a second invocation returns false on a block the first one has changed
C7_Witness ==
  /\ pc = "done"
  /\ runs = 2
  /\ ~modified
  /\ \E k \in 1..Len(entry) : entry[k].op = "icmp"

NumLeadingPhi(blk) ==
  Cardinality({k \in 1..Len(blk) : \A j \in 1..k : blk[j].op = "phi"})

\* C8: the leading phi instructions are unchanged and nothing is inserted
\* before or between them.
C8_PhiPrefixUntouched ==
  /\ Len(block) >= NumLeadingPhi(entry)
  /\ SubSeq(block, 1, NumLeadingPhi(entry)) = SubSeq(entry, 1, NumLeadingPhi(entry))
  /\ NumLeadingPhi(block) = NumLeadingPhi(entry)

\* a leading phi instruction with an integer zero operand, in a block whose
\* later instruction got an operand replaced
C8_Witness ==
  /\ pc = "done"
  /\ modified
  /\ NumLeadingPhi(entry) >= 1
  /\ isValidCandidateOperand(entry[1].ops[1])
  /\ block[1] = entry[1]

\* CastInst::castIsValid for the casts the pass creates
castIsValid(op, SrcTy, DestTy) ==
  /\ isIntegerTy(SrcTy)
  /\ isIntegerTy(DestTy)
  /\ IF op = "zext" THEN Bits(SrcTy) < Bits(DestTy) ELSE Bits(SrcTy) > Bits(DestTy)

WellTyped(inst) ==
  CASE inst.op \in {"zext", "trunc"} -> castIsValid(inst.op, inst.ops[1].ty, inst.ty)
    [] inst.op \in {"and", "or", "mul"} ->
         /\ isIntegerTy(inst.ty)
         /\ inst.ops[1].ty = inst.ty
         /\ inst.ops[2].ty = inst.ty
    [] inst.op = "icmp" -> inst.ty = "i1" /\ inst.ops[1].ty = inst.ops[2].ty
    [] OTHER -> TRUE

\* every use of an instruction comes after it in the block
DefinedBeforeUse(k) ==
  \A o \in 1..Len(block[k].ops) :
    block[k].ops[o].k = "inst" =>
      /\ InBlock(block, block[k].ops[o].v)
      /\ Pos(block, block[k].ops[o].v) < k
      /\ block[Pos(block, block[k].ops[o].v)].ty = block[k].ops[o].ty

\* C9: the block is well-formed during and after every invocation: operand
\* counts, operand types and result types of its instructions are those at
\* entry, and every instruction, the final zero-extension included, is
\* well typed.
C9_BlockWellFormed ==
  /\ \A k \in 1..Len(entry) :
       /\ InBlock(block, entry[k].id)
       /\ Now(k).ty = entry[k].ty
       /\ Now(k).op = entry[k].op
       /\ Len(Now(k).ops) = Len(entry[k].ops)
       /\ \A o \in 1..Len(entry[k].ops) : Now(k).ops[o].ty = entry[k].ops[o].ty
  /\ \A k \in 1..Len(block) : WellTyped(block[k]) /\ DefinedBeforeUse(k)

\* what does hold: the same, for blocks whose replaced zeros are integers
ReplacedTypesAreInteger ==
  \A k \in 1..Len(block) : block[k].op = "zext" => isIntegerTy(block[k].ty)
WellFormedUnlessNonIntegerZero ==
  ReplacedTypesAreInteger => C9_BlockWellFormed

\* the instructions of the entry block from the first insertion point on
RECURSIVE FromFirstInsertionPt(_)
FromFirstInsertionPt(blk) ==
  IF blk = <<>> THEN <<>>
  ELSE IF Head(blk).op = "phi" THEN FromFirstInsertionPt(Tail(blk))
  ELSE [k \in 1..Len(blk) |-> blk[k].id]

\* C10: every invocation returns, having visited each instruction that was
\* in the block at entry from the first insertion point on exactly once, in
\* order, and none of the instructions it inserted.
C10_TraversalTerminates ==
  /\ (pc = "loop") ~> (pc = "done")
  /\ [](pc = "done" => visited = FromFirstInsertionPt(entry))

\* an invocation that inserted instructions has returned
C10_Witness ==
  /\ pc = "done"
  /\ modified
  /\ Len(block) >= Len(entry) + 20
  /\ Len(visited) >= 2

====
